---- MODULE Spec2Model ----
(***************************************************************************)
(* Model of pcef.core.panels.search_and_replace.SearchAndReplacePanel:     *)
(* the occurrence list, the current occurrence, the background search pass *)
(* and the navigation / replacement operations built on them.              *)
(*                                                                         *)
(* Text is a sequence of one-character strings.  Positions are 0-based     *)
(* character offsets as in QTextCursor; an occurrence is <<start, end>>    *)
(* with end exclusive.                                                     *)
(***************************************************************************)
EXTENDS Integers, Sequences, FiniteSets, TLC

\* ------------------------------------------------------------------------
\* Bounds of the model
\* ------------------------------------------------------------------------
MaxLen == 3        \* longest document at the start and after a user edit
MaxEvents == 3     \* user events (edits, requests, calls) in one run

Alphabet == {"a", " "}
QueryAlphabet == {"a", "A", " "}
ReplAlphabet == {"a"}

\* a search text short enough to occur twice, apart, in a document, and
\* replacements shorter than, as long as and longer than it
MaxQuery == (MaxLen - 1) \div 2
MaxRepl == MaxQuery + 1

SeqsUpTo(S, n) == UNION {[1..k -> S] : k \in 0..n}

Texts == SeqsUpTo(Alphabet, MaxLen)
Queries == SeqsUpTo(QueryAlphabet, MaxQuery)
Replacements == SeqsUpTo(ReplAlphabet, MaxRepl)

NoJob == [none |-> TRUE]

Min(S) == CHOOSE x \in S : \A y \in S : x <= y
Lower(a, b) == IF a <= b THEN a ELSE b
Higher(a, b) == IF a >= b THEN a ELSE b

\* ------------------------------------------------------------------------
\* QTextCursor / QTextDocument as used by the panel
\* ------------------------------------------------------------------------
\* A cursor is [anchor, position]; a position is valid in 0..length.
selectionStart(tc) == Lower(tc.anchor, tc.position)
selectionEnd(tc) == Higher(tc.anchor, tc.position)

\* tc.setPosition(pos): an out-of-range position leaves the cursor as it is
setPosition(tc, pos, docLen) ==
    IF pos < 0 \/ pos > docLen THEN tc
    ELSE [anchor |-> pos, position |-> pos]

\* tc.setPosition(pos, tc.KeepAnchor)
setPositionKeepAnchor(tc, pos, docLen) ==
    IF pos < 0 \/ pos > docLen THEN tc
    ELSE [anchor |-> tc.anchor, position |-> pos]

\* tc.insertText(text): the selection is replaced, the cursor ends after it
insertedText(doc, tc, text) ==
    SubSeq(doc, 1, selectionStart(tc)) \o text
        \o SubSeq(doc, selectionEnd(tc) + 1, Len(doc))

insertedCursor(tc, text) ==
    [anchor |-> selectionStart(tc) + Len(text),
     position |-> selectionStart(tc) + Len(text)]

\* Every QTextCursor of a document follows its edits, the copies returned by
\* editor.textCursor() included.  An edit replaces [s, e) by a characters;
\* log is the sequence of the edits <<s, e, a>> made by a handler.
adjustedPosition(pos, s, e, a) ==
    IF s = e /\ a = 0 THEN pos
    ELSE IF pos < s THEN pos
    ELSE IF pos <= e THEN s + a
    ELSE pos - (e - s) + a

RECURSIVE afterEdits(_, _)
afterEdits(c, log) ==
    IF log = <<>> THEN c
    ELSE afterEdits([anchor |-> adjustedPosition(c.anchor, log[1][1],
                                                 log[1][2], log[1][3]),
                     position |-> adjustedPosition(c.position, log[1][1],
                                                   log[1][2], log[1][3])],
                    Tail(log))

toLower(c) == IF c = "A" THEN "a" ELSE c
isLetterOrNumber(c) == c \in {"a", "A"}

sameChar(c, d, caseSensitive) ==
    IF caseSensitive THEN c = d ELSE toLower(c) = toLower(d)

matchesAt(doc, q, idx, caseSensitive) ==
    /\ idx >= 0
    /\ idx + Len(q) <= Len(doc)
    /\ \A k \in 1..Len(q) : sameChar(doc[idx + k], q[k], caseSensitive)

indexOf(doc, q, offset, caseSensitive) ==
    LET hits == {i \in offset..(Len(doc) - Len(q)) :
                    matchesAt(doc, q, i, caseSensitive)}
    IN IF hits = {} THEN -1 ELSE Min(hits)

\* QTextDocument.find within the (single) block: first hit at or after
\* offset; with FindWholeWords a hit inside a word is skipped
RECURSIVE findInBlock(_, _, _, _)
findInBlock(doc, q, offset, flags) ==
    IF offset < 0 \/ offset > Len(doc) THEN -1
    ELSE LET idx == indexOf(doc, q, offset, flags.caseSensitive)
             end == idx + Len(q)
         IN IF idx = -1 THEN -1
            ELSE IF /\ flags.wholeWords
                    /\ \/ (idx # 0 /\ isLetterOrNumber(doc[idx]))
                       \/ (end # Len(doc) /\ isLetterOrNumber(doc[end + 1]))
                 THEN findInBlock(doc, q, end + 1, flags)
                 ELSE idx

\* doc.find(text, from, flags): start of the hit, -1 for a null cursor
find(doc, subString, from, flags) ==
    IF subString = <<>> THEN -1 ELSE findInBlock(doc, subString, from, flags)

\* ------------------------------------------------------------------------
\* Python list indexing (negative indices count from the end)
\* ------------------------------------------------------------------------
pyIndexOK(list, i) == i >= 0 - Len(list) /\ i < Len(list)
pyPos(list, i) == IF i >= 0 THEN i + 1 ELSE Len(list) + i + 1
pyItem(list, i) == list[pyPos(list, i)]
\* mutant of pyPop: nothing is removed
pyPopKeepsAll(list, i) == list

pyPop(list, i) ==
    SubSeq(list, 1, pyPos(list, i) - 1)
        \o SubSeq(list, pyPos(list, i) + 1, Len(list))

\* ------------------------------------------------------------------------
\* The search pass
\* ------------------------------------------------------------------------
getUserSearchFlag(case, whole) ==
    [caseSensitive |-> case, wholeWords |-> whole]

compareCursors(a, b) ==
    /\ selectionStart(a) = selectionStart(b)
    /\ selectionEnd(a) = selectionEnd(b)

\* cursor.setPosition(cursor.position() + 1); doc.find(text, cursor, flags)
\* resumes at the end of the cursor's selection.  The hit [start, end) left
\* the cursor with position = end.
resumeFrom(doc, start, end) ==
    selectionEnd(setPosition([anchor |-> start, position |-> end],
                             end + 1, Len(doc)))

\* the while loop of __execSearch; start is the hit of the last find
\* one turn of the while loop for the hit at start: the hit is compared
\* with the original cursor and appended, and the next hit is looked for
scanStep(text, doc, originalCursor, flags, start, acc) ==
    LET end == start + Len(text)
        hit == [anchor |-> start, position |-> end]
        cptMatches == Len(acc.occ)
    IN [start |-> find(doc, text, resumeFrom(doc, start, end), flags),
        acc |-> [occ |-> Append(acc.occ, <<start, end>>),
                 cur |-> IF compareCursors(hit, originalCursor)
                         THEN cptMatches ELSE acc.cur]]

\* the while loop from the hit at start on: the turns of scanStep, one
\* after the other
RECURSIVE scanLoop(_, _, _, _, _, _)
scanLoop(text, doc, originalCursor, flags, start, acc) ==
    IF start = -1 THEN acc
    ELSE LET end == start + Len(text)
             hit == [anchor |-> start, position |-> end]
             cptMatches == Len(acc.occ)
         IN scanLoop(text, doc, originalCursor, flags,
                     find(doc, text, resumeFrom(doc, start, end), flags),
                     [occ |-> Append(acc.occ, <<start, end>>),
                      cur |-> IF compareCursors(hit, originalCursor)
                              THEN cptMatches ELSE acc.cur])

\* mutant of execSearch: the scan starts at the editor's cursor
execSearchFromCursor(text, doc, originalCursor, flags) ==
    IF text # <<>>
    THEN scanLoop(text, doc, originalCursor, flags,
                  find(doc, text, selectionEnd(originalCursor), flags),
                  [occ |-> <<>>, cur |-> -1])
    ELSE [occ |-> <<>>, cur |-> -1]

\* __execSearch between lock and unlock: the new list and current index
execSearch(text, doc, originalCursor, flags) ==
    IF text # <<>>
    THEN scanLoop(text, doc, originalCursor, flags, find(doc, text, 0, flags),
                  [occ |-> <<>>, cur |-> -1])
    ELSE [occ |-> <<>>, cur |-> -1]

\* ------------------------------------------------------------------------
\* Operations of the UI thread, as functions of the panel state
\*   p = [occ, cur, text, tc, conn, cpt, log, req]
\* occ/cur: __occurrences/__current_occurrence, text/tc: the editor's
\* document and text cursor, conn: connections of editor.textChanged to
\* requestSearch, cpt: cptOccurrences, log: the edits made to the document,
\* req: editor.textChanged has called requestSearch
\* ------------------------------------------------------------------------
getCurrentOccurrence(p) == p.cur
getOccurrences(p) == p.occ
setCurrentOccurrence(p, cr) == [p EXCEPT !.cur = cr]
clearOccurrences(p) == [p EXCEPT !.occ = <<>>]

\* the try block of selectNext / selectPrevious
selectOccurrence(p, occurrences, cr) ==
    IF pyIndexOK(occurrences, cr)
    THEN [p |-> [p EXCEPT !.tc = setPositionKeepAnchor(
                        setPosition(p.tc, pyItem(occurrences, cr)[1],
                                    Len(p.text)),
                        pyItem(occurrences, cr)[2], Len(p.text))],
          ret |-> TRUE]
    ELSE [p |-> p, ret |-> FALSE]

\* mutant of nextIndex: no wrap from the last occurrence to the first
nextIndexNoWrap(cr, n) == IF cr = -1 THEN 0 ELSE cr + 1

nextIndex(cr, n) == IF cr = -1 \/ cr = n - 1 THEN 0 ELSE cr + 1
\* mutant of previousIndex: no wraparound
previousIndexNoWrap(cr, n) == cr - 1

previousIndex(cr, n) == IF cr = -1 \/ cr = 0 THEN n - 1 ELSE cr - 1

selectNext(p) ==
    LET cr == nextIndex(getCurrentOccurrence(p), Len(getOccurrences(p)))
    IN selectOccurrence(setCurrentOccurrence(p, cr), getOccurrences(p), cr)

selectPrevious(p) ==
    LET cr == previousIndex(getCurrentOccurrence(p), Len(getOccurrences(p)))
    IN selectOccurrence(setCurrentOccurrence(p, cr), getOccurrences(p), cr)

\* mutant of shiftFrom: the entry that took the removed slot is not shifted
shiftFromAfter(list, i, offset) ==
    [j \in 1..Len(list) |->
        IF j - 1 > i THEN <<list[j][1] + offset, list[j][2] + offset>>
        ELSE list[j]]

\* entries at index >= i of the list after the pop are shifted
shiftFrom(list, i, offset) ==
    [j \in 1..Len(list) |->
        IF j - 1 >= i THEN <<list[j][1] + offset, list[j][2] + offset>>
        ELSE list[j]]

removeOccurrence(p, i, offset) ==
    IF offset # 0
    THEN [p EXCEPT !.occ = shiftFrom(pyPop(p.occ, i), i, offset)]
    ELSE [p EXCEPT !.occ = pyPop(p.occ, i)]

\* mutant of disconnect: the connection is left in place
disconnectNothing(p) == p

\* editor.textChanged.disconnect(requestSearch); RuntimeError is passed over
disconnect(p) == [p EXCEPT !.conn = IF p.conn > 0 THEN p.conn - 1 ELSE 0]
connect(p) == [p EXCEPT !.conn = p.conn + 1]

\* the cursor replaceCurrent puts on occ, and the length of its selection
cursorOver(p, occ) ==
    setPositionKeepAnchor(setPosition(p.tc, occ[1], Len(p.text)),
                          occ[2], Len(p.text))

len_to_replace(p, occ) ==
    selectionEnd(cursorOver(p, occ)) - selectionStart(cursorOver(p, occ))

\* tc.insertText(text); setTextCursor(tc); textChanged.connect(requestSearch)
insertOver(p, occ, text) ==
    LET tc == cursorOver(p, occ)
    IN connect([p EXCEPT
                  !.text = insertedText(p.text, tc, text),
                  !.tc = insertedCursor(tc, text),
                  !.log = Append(@, <<selectionStart(tc), selectionEnd(tc),
                                      Len(text)>>),
                  !.req = @ \/ (p.conn > 0 /\
                                (len_to_replace(p, occ) > 0 \/
                                 Len(text) > 0))])

\* the index replaceCurrent uses for occurrences[cr] and __removeOccurrence
replacedIndex(p) == getCurrentOccurrence(p)

replaceCurrent(p, text) ==
    LET cr == replacedIndex(p)
        occurrences == getOccurrences(p)
        p1 == IF getCurrentOccurrence(p) = -1 THEN selectNext(p).p ELSE p
        p2 == disconnect(p1)
    IN IF ~pyIndexOK(occurrences, cr)
       THEN [p |-> p2, ret |-> FALSE]
       ELSE LET occ == pyItem(occurrences, cr)
                offset == Len(text) - len_to_replace(p2, occ)
                p3 == insertOver(p2, occ, text)
                p4 == removeOccurrence(p3, cr, offset)
                p5 == selectNext(setCurrentOccurrence(p4, cr - 1)).p
            IN [p |-> [p5 EXCEPT !.cpt = Len(getOccurrences(p5))],
                ret |-> TRUE]

\* replaceAll: replaceCurrent until it returns False.  calls counts the
\* replaceCurrent calls made; the loop is cut after fuel calls, and
\* remains is then still TRUE.
RECURSIVE replaceAllLoop(_, _, _, _)
replaceAllLoop(p, text, calls, fuel) ==
    LET r == replaceCurrent(p, text)
    IN IF r.ret /\ calls + 1 < fuel
       THEN replaceAllLoop(r.p, text, calls + 1, fuel)
       ELSE [p |-> r.p, calls |-> calls + 1, remains |-> r.ret]

replaceAll(p, text) == replaceAllLoop(p, text, 0, Len(p.occ) + 3)

onSearchFinished(p) ==
    LET occurrences == getOccurrences(p)
        p1 == [p EXCEPT !.cpt = Len(occurrences)]
    IN IF p1.cpt = 0 THEN [p1 EXCEPT !.cur = -1]
       ELSE IF getCurrentOccurrence(p1) = -1 THEN selectNext(p1).p
       ELSE p1

\* ------------------------------------------------------------------------
\* State
\* ------------------------------------------------------------------------
VARIABLES
    text,                \* the editor's live document
    tc,                  \* the editor's text cursor
    lineEditSearch,      \* the search text
    checkBoxCase,        \* case-sensitive flag
    checkBoxWholeWords,  \* whole-word flag
    occurrences,         \* __occurrences
    current_occurrence,  \* __current_occurrence
    cptOccurrences,      \* cptOccurrences
    connected,           \* connections editor.textChanged -> requestSearch
    timerJob,            \* job waiting for the debounce timer, or NoJob
    runningJob,          \* job the worker thread has started, or NoJob
    queuedJob,           \* job submitted while the worker was busy, or NoJob
    signals,             \* searchFinished emissions not yet delivered
    events,              \* user events handled so far
    cleared,             \* the last requestSearch had an empty search text
    last,                \* the last operation: its inputs and result
    trail,               \* results of the selectNext calls made in a row
                         \* since current_occurrence was -1
    fate,                \* what became of the jobs that left the runner:
                         \* the ids superseded, cancelled and run
    mutex,               \* TRUE while __mutex is held between two steps
    passes,              \* the completed search passes with their results,
                         \* kept in SpecRerun only
    th                   \* where the UI thread and the worker thread stand
                         \* inside their operations, their local variables
                         \* and the owner of __mutex, in SpecThreads only

vars == <<text, tc, lineEditSearch, checkBoxCase, checkBoxWholeWords,
          occurrences, current_occurrence, cptOccurrences, connected,
          timerJob, runningJob, queuedJob, signals, events, cleared, last,
          trail, fate, mutex, passes, th>>

Panel ==
    [occ |-> occurrences, cur |-> current_occurrence, text |-> text,
     tc |-> tc, conn |-> connected, cpt |-> cptOccurrences, log |-> <<>>,
     req |-> FALSE]

Store(p) ==
    /\ occurrences' = p.occ
    /\ current_occurrence' = p.cur
    /\ text' = p.text
    /\ tc' = p.tc
    /\ connected' = p.conn
    /\ cptOccurrences' = p.cpt

\* what `last` keeps of the state an operation started in
Before ==
    [occ |-> occurrences, cur |-> current_occurrence, text |-> text,
     conn |-> connected]

Done(op, arg, job, ret, calls) ==
    [op |-> op, pre |-> Before, text |-> arg, job |-> job, ret |-> ret,
     calls |-> calls]

JobWithoutFlags(txt, p, flags) ==
    [none |-> FALSE, text |-> txt, doc |-> p.text, cursor |-> p.tc,
     flags |-> [caseSensitive |-> FALSE, wholeWords |-> FALSE],
     id |-> events + 1, origin |-> p.tc]

Job(txt, p, flags) ==
    [none |-> FALSE, text |-> txt, doc |-> p.text, cursor |-> p.tc,
     flags |-> flags, id |-> events + 1, origin |-> p.tc]

\* the job after the edits of p.log: its cursor has followed them
held(job, p) ==
    IF job = NoJob THEN job
    ELSE [job EXCEPT !.cursor = afterEdits(@, p.log)]

\* the ids of the jobs among js
ids(js) == {j.id : j \in {k \in js : k # NoJob}}

\* a search text that is true but not a string (1.5, say): doc.find raises
\* TypeError on it
NotAString == <<"?">>

NoFate == [superseded |-> {}, cancelled |-> {}, ran |-> {}]

\* both threads outside their operations, __mutex free
\*   pc: the statement the UI thread is at, back: where the selectNext it
\*   is in returns to, dir: selectNext or selectPrevious;
\*   cr, occs: the locals of selectNext / selectPrevious, crGen, occGen: the
\*   number of completed passes when they were read;
\*   rcr, roccs, rep, offset: the locals of replaceCurrent;
\*   owner: the thread holding __mutex; wpc, wpos: the statement the worker
\*   is at and the hit its scan is on; gen: the completed passes;
\*   bare: a field was accessed without __mutex; mid: a list was read
\*   while a pass was filling it; stopped: the jobs running at a stopJob()
NoThreads ==
    [pc |-> "idle", back |-> "idle", dir |-> "next", cr |-> -1, occs |-> <<>>,
     crGen |-> 0, occGen |-> 0, rcr |-> -1, roccs |-> <<>>, rep |-> <<>>,
     offset |-> 0, owner |-> "none", wpc |-> "idle", wpos |-> -1, gen |-> 0,
     bare |-> FALSE, mid |-> FALSE, stopped |-> {}]

Init ==
    /\ text \in Texts
    /\ tc = [anchor |-> 0, position |-> 0]
    /\ lineEditSearch = <<>>
    /\ checkBoxCase = FALSE
    /\ checkBoxWholeWords = FALSE
    /\ occurrences = <<>>
    /\ current_occurrence = -1
    /\ cptOccurrences = 0
    /\ connected = 1
    /\ timerJob = NoJob
    /\ runningJob = NoJob
    /\ queuedJob = NoJob
    /\ signals = 0
    /\ events = 0
    /\ cleared = FALSE
    /\ last = [op |-> "init", pre |-> Before, text |-> <<>>, job |-> NoJob,
               ret |-> FALSE, calls |-> 0]
    /\ trail = <<>>
    /\ fate = NoFate
    /\ mutex = FALSE
    /\ passes = <<>>
    /\ th = NoThreads

\* every user event is counted, and the run ends after MaxEvents of them
Counted == events < MaxEvents /\ events' = events + 1

\* ------------------------------------------------------------------------
\* requestSearch and the job runner
\* ------------------------------------------------------------------------
\* the cursors held by the jobs follow the edits a handler made
heldJobs(p) ==
    /\ timerJob' = held(timerJob, p)
    /\ queuedJob' = held(queuedJob, p)
    /\ runningJob' = held(runningJob, p)

\* requestJob(job, True, ...): the debounce timer is (re)armed with the job
requestJob(job, p) ==
    /\ timerJob' = job
    /\ queuedJob' = held(queuedJob, p)
    /\ runningJob' = held(runningJob, p)
    /\ fate' = [fate EXCEPT !.superseded = @ \cup ids({timerJob})]

\* cancelRequests() disarms the timer and drops the job not yet started;
\* stopJob() raises a flag that __execSearch never reads, so the job the
\* worker has started runs on
cancelRequestsAndStopJob(p) ==
    /\ timerJob' = NoJob
    /\ queuedJob' = NoJob
    /\ runningJob' = held(runningJob, p)
    /\ fate' = [fate EXCEPT !.cancelled = @ \cup ids({timerJob, queuedJob})]

\* requestSearch(txt) with the search flags read from the check boxes
requestSearch(txt, p, case, whole) ==
    IF txt # <<>>
    THEN /\ requestJob(Job(txt, p, getUserSearchFlag(case, whole)), p)
         /\ Store(p)
         /\ cleared' = FALSE
    ELSE /\ cancelRequestsAndStopJob(p)
         /\ ~mutex
         /\ Store(onSearchFinished(clearOccurrences(p)))
         /\ cleared' = TRUE

\* lineEditSearch.textChanged -> requestSearch(newText)
SetSearchText ==
    \E q \in Queries :
        /\ Counted
        /\ q # lineEditSearch
        /\ lineEditSearch' = q
        /\ requestSearch(q, Panel, checkBoxCase, checkBoxWholeWords)
        /\ last' = Done("requestSearch", q, runningJob, FALSE, 0)
        /\ trail' = <<>>
        /\ UNCHANGED <<mutex, passes, th,
                       checkBoxCase, checkBoxWholeWords, signals>>

\* checkBoxCase.stateChanged -> requestSearch(int)
ToggleCase ==
    /\ Counted
    /\ checkBoxCase' = ~checkBoxCase
    /\ requestSearch(lineEditSearch, Panel, ~checkBoxCase, checkBoxWholeWords)
    /\ last' = Done("requestSearch", lineEditSearch, runningJob, FALSE, 0)
    /\ trail' = <<>>
    /\ UNCHANGED <<mutex, passes, th,
                   lineEditSearch, checkBoxWholeWords, signals>>

\* checkBoxWholeWords.stateChanged -> requestSearch(int)
ToggleWholeWords ==
    /\ Counted
    /\ checkBoxWholeWords' = ~checkBoxWholeWords
    /\ requestSearch(lineEditSearch, Panel, checkBoxCase, ~checkBoxWholeWords)
    /\ last' = Done("requestSearch", lineEditSearch, runningJob, FALSE, 0)
    /\ trail' = <<>>
    /\ UNCHANGED <<mutex, passes, th, lineEditSearch, checkBoxCase, signals>>

\* The user types a character over the selection, or deletes the selection
\* (the character before the cursor when nothing is selected);
\* editor.textChanged -> requestSearch() while connected
typed(p, str) ==
    [p EXCEPT !.text = insertedText(p.text, p.tc, str),
              !.tc = insertedCursor(p.tc, str),
              !.log = Append(@, <<selectionStart(p.tc), selectionEnd(p.tc),
                                  Len(str)>>)]

backspace(p) ==
    IF selectionStart(p.tc) = selectionEnd(p.tc) /\ selectionStart(p.tc) > 0
    THEN typed([p EXCEPT !.tc = [anchor |-> p.tc.position - 1,
                                 position |-> p.tc.position]], <<>>)
    ELSE typed(p, <<>>)

UserEdit ==
    /\ Counted
    /\ \E p \in {typed(Panel, <<c>>) : c \in Alphabet}
                  \cup {backspace(Panel)} :
        /\ p.text # text
        /\ Len(p.text) <= MaxLen
        /\ IF connected > 0
           THEN requestSearch(lineEditSearch, p, checkBoxCase,
                              checkBoxWholeWords)
           ELSE /\ Store(p)
                /\ heldJobs(p)
                /\ UNCHANGED <<cleared, fate>>
    /\ last' = Done("edit", <<>>, NoJob, FALSE, 0)
    /\ trail' = <<>>
    /\ UNCHANGED <<mutex, passes, th,
                   lineEditSearch, checkBoxCase, checkBoxWholeWords, signals>>

\* The debounce timer fires: the job goes to the single worker, which
\* starts it when idle and otherwise keeps it as the one queued job
TimerFire ==
    /\ timerJob # NoJob
    /\ timerJob' = NoJob
    /\ IF runningJob = NoJob
       THEN /\ runningJob' = timerJob
            /\ queuedJob' = queuedJob
            /\ fate' = fate
       ELSE /\ runningJob' = runningJob
            /\ queuedJob' = timerJob
            /\ fate' = [fate EXCEPT !.superseded = @ \cup ids({queuedJob})]
    /\ UNCHANGED <<mutex, passes, th,
                   text, tc, lineEditSearch, checkBoxCase, checkBoxWholeWords,
                   occurrences, current_occurrence, cptOccurrences, connected,
                   signals, events, cleared, last, trail>>

\* The worker thread runs __execSearch: the critical section between
\* lock and unlock, then searchFinished.emit(); the worker takes the
\* queued job next
ExecSearch ==
    /\ runningJob # NoJob
    /\ runningJob.text # NotAString
    /\ ~mutex
    /\ LET r == execSearch(runningJob.text, runningJob.doc,
                           runningJob.cursor, runningJob.flags)
       IN /\ occurrences' = r.occ
          /\ current_occurrence' = r.cur
    /\ signals' = signals + 1
    /\ runningJob' = queuedJob
    /\ queuedJob' = NoJob
    /\ fate' = [fate EXCEPT !.ran = @ \cup {runningJob.id}]
    /\ last' = Done("execSearch", <<>>, runningJob, TRUE, 0)
    /\ trail' = <<>>
    /\ UNCHANGED <<mutex, passes, th,
                   text, tc, lineEditSearch, checkBoxCase, checkBoxWholeWords,
                   cptOccurrences, connected, timerJob, events, cleared>>

\* The UI thread delivers a queued searchFinished to __onSearchFinished
OnSearchFinished ==
    /\ signals > 0
    /\ ~mutex
    /\ signals' = signals - 1
    /\ Store(onSearchFinished(Panel))
    /\ last' = Done("onSearchFinished", <<>>, NoJob, FALSE, 0)
    /\ trail' = <<>>
    /\ UNCHANGED <<mutex, passes, th,
                   lineEditSearch, checkBoxCase, checkBoxWholeWords, timerJob,
                   runningJob, queuedJob, events, cleared, fate>>

\* ------------------------------------------------------------------------
\* Navigation and replacement, called from the UI thread
\* ------------------------------------------------------------------------
runner == <<timerJob, runningJob, queuedJob, signals, fate>>
controls == <<lineEditSearch, checkBoxCase, checkBoxWholeWords>>
inputs ==
    <<lineEditSearch, checkBoxCase, checkBoxWholeWords, cleared, mutex,
      passes, th>>

\* the state a replacement leaves: the insertText of replaceCurrent emits
\* editor.textChanged, which calls requestSearch() if still connected
storeReplaced(p) ==
    IF p.req
    THEN requestSearch(lineEditSearch, p, checkBoxCase, checkBoxWholeWords)
    ELSE /\ Store(p)
         /\ heldJobs(p)
         /\ UNCHANGED <<cleared, fate>>

SelectNext ==
    /\ Counted
    /\ \E r \in {selectNext(Panel)} :
       /\ ~mutex
       /\ r.p.cur <= MaxLen     \* on an empty list the index only grows
       /\ Store(r.p)
       /\ last' = Done("selectNext", <<>>, NoJob, r.ret, 0)
       /\ trail' = IF (current_occurrence = -1 /\ occurrences # <<>>)
                      \/ (trail # <<>> /\ Len(trail) <= Len(occurrences))
                   THEN Append(trail, [cur |-> r.p.cur, ret |-> r.ret])
                   ELSE <<>>
       /\ UNCHANGED <<runner, inputs>>

SelectPrevious ==
    /\ Counted
    /\ \E r \in {selectPrevious(Panel)} :
       /\ ~mutex
       /\ Store(r.p)
       /\ last' = Done("selectPrevious", <<>>, NoJob, r.ret, 0)
       /\ trail' = <<>>
       /\ UNCHANGED <<runner, inputs>>

ReplaceCurrent ==
    \E rep \in Replacements :
        /\ Counted
        /\ \E r \in {replaceCurrent(Panel, rep)} :
           /\ ~mutex
           /\ storeReplaced(r.p)
           /\ last' = Done("replaceCurrent", rep, NoJob, r.ret, 1)
           /\ trail' = <<>>
           /\ UNCHANGED <<signals, controls, mutex, passes, th>>

ReplaceAll ==
    \E rep \in Replacements :
        /\ Counted
        /\ \E r \in {replaceAll(Panel, rep)} :
           /\ ~mutex
           /\ storeReplaced(r.p)
           /\ last' = Done("replaceAll", rep, NoJob, r.remains, r.calls)
           /\ trail' = <<>>
           /\ UNCHANGED <<signals, controls, mutex, passes, th>>

Next ==
    \/ SetSearchText
    \/ ToggleCase
    \/ ToggleWholeWords
    \/ UserEdit
    \/ TimerFire
    \/ ExecSearch
    \/ OnSearchFinished
    \/ SelectNext
    \/ SelectPrevious
    \/ ReplaceCurrent
    \/ ReplaceAll

Spec == Init /\ [][Next]_vars

\* ------------------------------------------------------------------------
\* The panel that also loses the focus
\* ------------------------------------------------------------------------
FocusOutKeepsTimer ==
    /\ Counted
    /\ last' = Done("focusOut", <<>>, runningJob, FALSE, 0)
    /\ trail' = <<>>
    /\ UNCHANGED <<text, tc, occurrences, current_occurrence, cptOccurrences,
                   connected, runner, inputs>>

\* focusOutEvent: stopJob(); cancelRequests()
FocusOut ==
    /\ Counted
    /\ cancelRequestsAndStopJob(Panel)
    /\ last' = Done("focusOut", <<>>, runningJob, FALSE, 0)
    /\ trail' = <<>>
    /\ UNCHANGED <<text, tc, occurrences, current_occurrence, cptOccurrences,
                   connected, signals, inputs>>

NextFocus == Next \/ FocusOut

SpecFocus == Init /\ [][NextFocus]_vars

\* ------------------------------------------------------------------------
\* The panel whose host asks for a search that fails in the worker
\* ------------------------------------------------------------------------
\* the host calls requestSearch(txt) with such a text
RequestOddSearch ==
    /\ Counted
    /\ requestSearch(NotAString, Panel, checkBoxCase, checkBoxWholeWords)
    /\ last' = Done("requestSearch", NotAString, runningJob, FALSE, 0)
    /\ trail' = <<>>
    /\ UNCHANGED <<mutex, passes, th,
                   lineEditSearch, checkBoxCase, checkBoxWholeWords,
                   signals>>

\* __execSearch on it: lock(), the list is emptied, doc.find raises at line
\* 411; unlock() and searchFinished.emit() are not reached.  The runner
\* swallows the exception and the worker takes the queued job next
ExecSearchRaises ==
    /\ runningJob # NoJob
    /\ runningJob.text = NotAString
    /\ ~mutex
    /\ mutex' = TRUE
    /\ occurrences' = <<>>
    /\ current_occurrence' = -1
    /\ runningJob' = queuedJob
    /\ queuedJob' = NoJob
    /\ fate' = [fate EXCEPT !.ran = @ \cup {runningJob.id}]
    /\ last' = Done("execSearchRaises", <<>>, runningJob, FALSE, 0)
    /\ trail' = <<>>
    /\ UNCHANGED <<text, tc, lineEditSearch, checkBoxCase, checkBoxWholeWords,
                   cptOccurrences, connected, timerJob, signals, events,
                   cleared, passes, th>>

NextFaulty == Next \/ RequestOddSearch \/ ExecSearchRaises

SpecFaulty == Init /\ [][NextFaulty]_vars

\* ------------------------------------------------------------------------
\* The panel with a record of every completed pass
\* ------------------------------------------------------------------------
\* Requests and navigation on a document that stays as it is: two passes
\* are compared only when their documents are equal. ExecSearchRecorded is
\* ExecSearch, and the pass and its result are appended to passes
ExecSearchRecorded ==
    /\ runningJob # NoJob
    /\ runningJob.text # NotAString
    /\ ~mutex
    /\ LET r == execSearch(runningJob.text, runningJob.doc,
                           runningJob.cursor, runningJob.flags)
       IN /\ occurrences' = r.occ
          /\ current_occurrence' = r.cur
          /\ passes' = Append(passes, [text |-> runningJob.text,
                                       doc |-> runningJob.doc,
                                       flags |-> runningJob.flags,
                                       cursor |-> runningJob.cursor,
                                       before |-> occurrences,
                                       occ |-> r.occ])
    /\ signals' = signals + 1
    /\ runningJob' = queuedJob
    /\ queuedJob' = NoJob
    /\ fate' = [fate EXCEPT !.ran = @ \cup {runningJob.id}]
    /\ last' = Done("execSearch", <<>>, runningJob, TRUE, 0)
    /\ trail' = <<>>
    /\ UNCHANGED <<mutex, th, text, tc, lineEditSearch, checkBoxCase,
                   checkBoxWholeWords, cptOccurrences, connected, timerJob,
                   events, cleared>>

NextRerun ==
    \/ SetSearchText
    \/ ToggleCase
    \/ ToggleWholeWords
    \/ TimerFire
    \/ ExecSearchRecorded
    \/ OnSearchFinished
    \/ SelectNext
    \/ SelectPrevious

SpecRerun == Init /\ [][NextRerun]_vars

\* ------------------------------------------------------------------------
\* The panel on a longer document whose user also selects text by hand
\* ------------------------------------------------------------------------
RECURSIVE blanks(_)
blanks(k) == IF k = 0 THEN <<>> ELSE <<" ">> \o blanks(k - 1)

\* documents with three separate hits of "a" behind 0..MaxLen blanks
LongTexts == {blanks(k) \o <<"a", " ", "a", " ", "a">> : k \in 0..MaxLen}

InitLong ==
    /\ text \in LongTexts
    /\ tc = [anchor |-> 0, position |-> 0]
    /\ lineEditSearch = <<>>
    /\ checkBoxCase = FALSE
    /\ checkBoxWholeWords = FALSE
    /\ occurrences = <<>>
    /\ current_occurrence = -1
    /\ cptOccurrences = 0
    /\ connected = 1
    /\ timerJob = NoJob
    /\ runningJob = NoJob
    /\ queuedJob = NoJob
    /\ signals = 0
    /\ events = 0
    /\ cleared = FALSE
    /\ last = [op |-> "init", pre |-> Before, text |-> <<>>, job |-> NoJob,
               ret |-> FALSE, calls |-> 0]
    /\ trail = <<>>
    /\ fate = NoFate
    /\ mutex = FALSE
    /\ passes = <<>>
    /\ th = NoThreads

CountedLong == events < 2 * MaxEvents /\ events' = events + 1

\* lineEditSearch.textChanged -> requestSearch("a")
SearchA ==
    /\ CountedLong
    /\ lineEditSearch = <<>>
    /\ lineEditSearch' = <<"a">>
    /\ requestSearch(<<"a">>, Panel, checkBoxCase, checkBoxWholeWords)
    /\ last' = Done("requestSearch", <<"a">>, NoJob, FALSE, 0)
    /\ UNCHANGED <<mutex, passes, th,
                   checkBoxCase, checkBoxWholeWords, signals, trail>>

\* The user extends the selection to the end of the document, or selects
\* the whole document; the panel is not told
UserSelect ==
    /\ CountedLong
    /\ \E sel \in {[anchor |-> selectionStart(tc), position |-> Len(text)],
                   [anchor |-> 0, position |-> Len(text)]} :
        /\ sel # tc
        /\ tc' = sel
    /\ last' = Done("select", <<>>, NoJob, FALSE, 0)
    /\ UNCHANGED <<text, occurrences, current_occurrence, cptOccurrences,
                   connected, runner, inputs, trail>>

\* The user types "a" over the selection;
\* editor.textChanged -> requestSearch() while connected
UserType ==
    /\ CountedLong
    /\ LET p == typed(Panel, <<"a">>)
       IN IF connected > 0
          THEN requestSearch(lineEditSearch, p, checkBoxCase,
                             checkBoxWholeWords)
          ELSE /\ Store(p)
               /\ heldJobs(p)
               /\ UNCHANGED <<cleared, fate>>
    /\ last' = Done("edit", <<>>, NoJob, FALSE, 0)
    /\ UNCHANGED <<mutex, passes, th,
                   lineEditSearch, checkBoxCase, checkBoxWholeWords, signals,
                   trail>>

SelectNextLong ==
    /\ CountedLong
    /\ \E r \in {selectNext(Panel)} :
       /\ ~mutex
       /\ occurrences # <<>>
       /\ Store(r.p)
       /\ last' = Done("selectNext", <<>>, NoJob, r.ret, 0)
       /\ UNCHANGED <<runner, inputs, trail>>

\* replaceCurrent(""): the match is deleted
ReplaceCurrentLong ==
    /\ CountedLong
    /\ \E r \in {replaceCurrent(Panel, <<>>)} :
       /\ ~mutex
       /\ storeReplaced(r.p)
       /\ last' = Done("replaceCurrent", <<>>, NoJob, r.ret, 1)
       /\ UNCHANGED <<signals, controls, mutex, passes, th, trail>>

NextLong ==
    \/ SearchA
    \/ UserSelect
    \/ UserType
    \/ TimerFire
    \/ ExecSearch
    \/ OnSearchFinished
    \/ SelectNextLong
    \/ ReplaceCurrentLong

SpecLong == InitLong /\ [][NextLong]_vars

\* ------------------------------------------------------------------------
\* The panel with its two threads: every step is one critical section of
\* __mutex, or the statements between two of them
\* ------------------------------------------------------------------------
MaxThreadEvents == MaxEvents + 1

\* documents with one and with two hits of "a", search texts with and
\* without a hit in them, a replacement that deletes and one that keeps
ThreadTexts == {<<"a">>, <<"a", " ", "a">>}
ThreadQueries == SeqsUpTo(Alphabet, MaxQuery)
ThreadReplacements == SeqsUpTo(ReplAlphabet, 1)

InitThreads ==
    /\ text \in ThreadTexts
    /\ tc = [anchor |-> 0, position |-> 0]
    /\ lineEditSearch = <<>>
    /\ checkBoxCase = FALSE
    /\ checkBoxWholeWords = FALSE
    /\ occurrences = <<>>
    /\ current_occurrence = -1
    /\ cptOccurrences = 0
    /\ connected = 1
    /\ timerJob = NoJob
    /\ runningJob = NoJob
    /\ queuedJob = NoJob
    /\ signals = 0
    /\ events = 0
    /\ cleared = FALSE
    /\ last = [op |-> "init", pre |-> Before, text |-> <<>>, job |-> NoJob,
               ret |-> FALSE, calls |-> 0]
    /\ trail = <<>>
    /\ fate = NoFate
    /\ mutex = FALSE
    /\ passes = <<>>
    /\ th = NoThreads

CountedThreads == events < MaxThreadEvents /\ events' = events + 1

\* __mutex.lock() returns at once only when no thread holds the mutex
Free == th.owner = "none"

\* the statements of the UI thread that start with __mutex.lock()
LockPcs ==
    {"clear", "fin_get", "fin_cur", "get", "sn_cr", "sn_occ", "sn_set",
     "rc_cr", "rc_occ", "rc_rm", "rc_set", "rc_cpt"}

Thread(t) ==
    /\ th' = t
    /\ mutex' = (t.owner # "none")

\* the UI thread is back in the event loop: the locals are gone
returned(t) ==
    [t EXCEPT !.pc = "idle", !.back = "idle", !.dir = "next", !.cr = -1,
              !.occs = <<>>, !.crGen = 0, !.occGen = 0, !.rcr = -1,
              !.roccs = <<>>, !.rep = <<>>, !.offset = 0]

\* the UI thread goes on at statement pc
goto(t, pc) == IF pc = "idle" THEN returned(t) ELSE [t EXCEPT !.pc = pc]

\* selectNext() called from inside a handler that goes on at back
callSelectNext(t, back) ==
    [t EXCEPT !.pc = "sn_cr", !.dir = "next", !.back = back]

history ==
    <<checkBoxCase, checkBoxWholeWords, cleared, last, trail, passes>>
jobs == <<timerJob, runningJob, queuedJob, fate>>
editor == <<text, tc, connected>>

\* lineEditSearch.textChanged -> requestSearch(q): requestJob, or for the
\* empty text cancelRequests(), stopJob() and on to __clearOccurrences()
ThSetSearchText ==
    \E q \in ThreadQueries :
        /\ th.pc = "idle"
        /\ CountedThreads
        /\ q # lineEditSearch
        /\ lineEditSearch' = q
        /\ IF q # <<>>
           THEN /\ requestJob(Job(q, Panel,
                                  getUserSearchFlag(checkBoxCase,
                                                    checkBoxWholeWords)),
                              Panel)
                /\ Thread(th)
           ELSE /\ cancelRequestsAndStopJob(Panel)
                /\ Thread([th EXCEPT !.pc = "clear",
                                     !.stopped = @ \cup ids({runningJob})])
        /\ UNCHANGED <<editor, occurrences, current_occurrence,
                       cptOccurrences, signals, history>>

\* __clearOccurrences() of requestSearch, then __onSearchFinished()
ThClearOccurrences ==
    /\ th.pc = "clear"
    /\ Free
    /\ occurrences' = clearOccurrences(Panel).occ
    /\ Thread(goto(th, "fin_get"))
    /\ UNCHANGED <<editor, current_occurrence, cptOccurrences, signals,
                   lineEditSearch, events, jobs, history>>

\* the debounce timer fires in the event loop of the UI thread
ThTimerFire == th.pc = "idle" /\ TimerFire

\* the UI thread takes a queued searchFinished: __onSearchFinished starts
ThFinishedBegin ==
    /\ th.pc = "idle"
    /\ signals > 0
    /\ signals' = signals - 1
    /\ Thread(goto(th, "fin_get"))
    /\ UNCHANGED <<editor, occurrences, current_occurrence, cptOccurrences,
                   lineEditSearch, events, jobs, history>>

\* __onSearchFinished: occurrences = getOccurrences(); cptOccurrences
ThFinishedGet ==
    /\ th.pc = "fin_get"
    /\ Free
    /\ cptOccurrences' = Len(getOccurrences(Panel))
    /\ Thread([goto(th, IF Len(getOccurrences(Panel)) = 0
                        THEN "fin_reset" ELSE "fin_cur")
                 EXCEPT !.mid = @ \/ th.wpc = "scan"])
    /\ UNCHANGED <<editor, occurrences, current_occurrence, signals,
                   lineEditSearch, events, jobs, history>>

\* __onSearchFinished, no occurrence: self.__current_occurrence = -1 is
\* written with no lock() before it
ThFinishedReset ==
    /\ th.pc = "fin_reset"
    /\ current_occurrence' = -1
    /\ Thread([goto(th, "idle") EXCEPT !.bare = TRUE])
    /\ UNCHANGED <<editor, occurrences, cptOccurrences, signals,
                   lineEditSearch, events, jobs, history>>

\* __onSearchFinished: elif self.__getCurrentOccurrence() == -1: selectNext()
ThFinishedCurrent ==
    /\ th.pc = "fin_cur"
    /\ Free
    /\ Thread(IF getCurrentOccurrence(Panel) = -1
              THEN callSelectNext(th, "idle")
              ELSE goto(th, "idle"))
    /\ UNCHANGED <<editor, occurrences, current_occurrence, cptOccurrences,
                   signals, lineEditSearch, events, jobs, history>>

\* the host calls getOccurrences()
ThGetBegin ==
    /\ th.pc = "idle"
    /\ CountedThreads
    /\ Thread(goto(th, "get"))
    /\ UNCHANGED <<editor, occurrences, current_occurrence, cptOccurrences,
                   signals, lineEditSearch, jobs, history>>

ThGetOccurrences ==
    /\ th.pc = "get"
    /\ Free
    /\ Thread([goto(th, "idle") EXCEPT !.mid = @ \/ th.wpc = "scan"])
    /\ UNCHANGED <<editor, occurrences, current_occurrence, cptOccurrences,
                   signals, lineEditSearch, events, jobs, history>>

\* the user calls selectNext() or selectPrevious()
ThSelectBegin ==
    \E dir \in {"next", "previous"} :
        /\ th.pc = "idle"
        /\ CountedThreads
        /\ Thread([th EXCEPT !.pc = "sn_cr", !.dir = dir, !.back = "idle"])
        /\ UNCHANGED <<editor, occurrences, current_occurrence,
                       cptOccurrences, signals, lineEditSearch, jobs, history>>

\* cr = self.__getCurrentOccurrence()
ThSelectReadCurrent ==
    /\ th.pc = "sn_cr"
    /\ Free
    /\ Thread([th EXCEPT !.pc = "sn_occ",
                         !.cr = getCurrentOccurrence(Panel),
                         !.crGen = th.gen])
    /\ UNCHANGED <<editor, occurrences, current_occurrence, cptOccurrences,
                   signals, lineEditSearch, events, jobs, history>>

\* occurrences = self.getOccurrences()
ThSelectReadList ==
    /\ th.pc = "sn_occ"
    /\ Free
    /\ Thread([th EXCEPT !.pc = "sn_set",
                         !.occs = getOccurrences(Panel),
                         !.occGen = th.gen,
                         !.mid = @ \/ th.wpc = "scan"])
    /\ UNCHANGED <<editor, occurrences, current_occurrence, cptOccurrences,
                   signals, lineEditSearch, events, jobs, history>>

\* the new index from the two locals, __setCurrentOccurrence(cr) and the
\* try block; the caller goes on
ThSelectStore ==
    /\ th.pc = "sn_set"
    /\ Free
    /\ LET cr == IF th.dir = "next"
                 THEN nextIndex(th.cr, Len(th.occs))
                 ELSE previousIndex(th.cr, Len(th.occs))
           r == selectOccurrence(setCurrentOccurrence(Panel, cr), th.occs, cr)
       IN /\ current_occurrence' = r.p.cur
          /\ tc' = r.p.tc
    /\ Thread(goto(th, th.back))
    /\ UNCHANGED <<text, connected, occurrences, cptOccurrences, signals,
                   lineEditSearch, events, jobs, history>>

\* the user calls replaceCurrent(rep)
ThReplaceBegin ==
    \E rep \in ThreadReplacements :
        /\ th.pc = "idle"
        /\ CountedThreads
        /\ Thread([th EXCEPT !.pc = "rc_cr", !.rep = rep])
        /\ UNCHANGED <<editor, occurrences, current_occurrence,
                       cptOccurrences, signals, lineEditSearch, jobs, history>>

\* replaceCurrent: cr = self.__getCurrentOccurrence()
ThReplaceReadCurrent ==
    /\ th.pc = "rc_cr"
    /\ Free
    /\ Thread([th EXCEPT !.pc = "rc_occ", !.rcr = replacedIndex(Panel)])
    /\ UNCHANGED <<editor, occurrences, current_occurrence, cptOccurrences,
                   signals, lineEditSearch, events, jobs, history>>

\* replaceCurrent: occurrences = self.getOccurrences();
\* if cr == -1: self.selectNext()
ThReplaceReadList ==
    /\ th.pc = "rc_occ"
    /\ Free
    /\ Thread([(IF th.rcr = -1 THEN callSelectNext(th, "rc_try")
                ELSE goto(th, "rc_try"))
                 EXCEPT !.roccs = getOccurrences(Panel),
                        !.mid = @ \/ th.wpc = "scan"])
    /\ UNCHANGED <<editor, occurrences, current_occurrence, cptOccurrences,
                   signals, lineEditSearch, events, jobs, history>>

\* replaceCurrent from the disconnect to the connect: occurrences[cr] of
\* the local list raises IndexError (return False), or the text is
\* replaced; the cursors of the jobs follow the edit
ThReplaceText ==
    /\ th.pc = "rc_try"
    /\ LET p2 == disconnect(Panel)
       IN IF ~pyIndexOK(th.roccs, th.rcr)
          THEN /\ text' = p2.text
               /\ tc' = p2.tc
               /\ connected' = p2.conn
               /\ heldJobs(p2)
               /\ Thread(goto(th, "idle"))
          ELSE LET occ == pyItem(th.roccs, th.rcr)
                   p3 == insertOver(p2, occ, th.rep)
               IN /\ text' = p3.text
                  /\ tc' = p3.tc
                  /\ connected' = p3.conn
                  /\ heldJobs(p3)
                  /\ Thread([th EXCEPT
                               !.pc = "rc_rm",
                               !.offset = Len(th.rep)
                                              - len_to_replace(p2, occ)])
    /\ UNCHANGED <<occurrences, current_occurrence, cptOccurrences, signals,
                   lineEditSearch, events, fate, history>>

\* __removeOccurrence(cr, offset): lock(), then pop(cr) on the shared list.
\* On an index the list no longer has, pop raises IndexError past the
\* unlock(); replaceCurrent catches it and returns False
ThReplaceRemove ==
    /\ th.pc = "rc_rm"
    /\ Free
    /\ IF ~pyIndexOK(occurrences, th.rcr)
       THEN /\ occurrences' = occurrences
            /\ Thread([goto(th, "idle") EXCEPT !.owner = "ui"])
       ELSE /\ occurrences' = removeOccurrence(Panel, th.rcr, th.offset).occ
            /\ Thread(goto(th, "rc_set"))
    /\ UNCHANGED <<editor, current_occurrence, cptOccurrences, signals,
                   lineEditSearch, events, jobs, history>>

\* replaceCurrent: cr -= 1; __setCurrentOccurrence(cr); selectNext()
ThReplaceSetCurrent ==
    /\ th.pc = "rc_set"
    /\ Free
    /\ current_occurrence' = setCurrentOccurrence(Panel, th.rcr - 1).cur
    /\ Thread(callSelectNext(th, "rc_cpt"))
    /\ UNCHANGED <<editor, occurrences, cptOccurrences, signals,
                   lineEditSearch, events, jobs, history>>

\* replaceCurrent: self.cptOccurrences = len(self.getOccurrences())
ThReplaceCount ==
    /\ th.pc = "rc_cpt"
    /\ Free
    /\ cptOccurrences' = Len(getOccurrences(Panel))
    /\ Thread([goto(th, "idle") EXCEPT !.mid = @ \/ th.wpc = "scan"])
    /\ UNCHANGED <<editor, occurrences, current_occurrence, signals,
                   lineEditSearch, events, jobs, history>>

\* The worker thread in __execSearch: lock(), the list is emptied, the
\* current index reset, and the first hit looked for
WorkerLock ==
    /\ runningJob # NoJob
    /\ th.wpc = "idle"
    /\ Free
    /\ occurrences' = <<>>
    /\ current_occurrence' = -1
    /\ Thread([th EXCEPT !.owner = "worker", !.wpc = "scan",
                         !.wpos = find(runningJob.doc, runningJob.text, 0,
                                       runningJob.flags)])
    /\ UNCHANGED <<editor, cptOccurrences, signals, lineEditSearch, events,
                   jobs, history>>

\* one turn of the while loop
WorkerScan ==
    /\ th.wpc = "scan"
    /\ th.wpos # -1
    /\ LET s == scanStep(runningJob.text, runningJob.doc, runningJob.cursor,
                         runningJob.flags, th.wpos,
                         [occ |-> occurrences, cur |-> current_occurrence])
       IN /\ occurrences' = s.acc.occ
          /\ current_occurrence' = s.acc.cur
          /\ Thread([th EXCEPT !.wpos = s.start])
    /\ UNCHANGED <<editor, cptOccurrences, signals, lineEditSearch, events,
                   jobs, history>>

\* the cursor is null: unlock()
WorkerUnlock ==
    /\ th.wpc = "scan"
    /\ th.wpos = -1
    /\ Thread([th EXCEPT !.owner = "none", !.wpc = "emit", !.gen = @ + 1])
    /\ UNCHANGED <<editor, occurrences, current_occurrence, cptOccurrences,
                   signals, lineEditSearch, events, jobs, history>>

\* searchFinished.emit(); the worker takes the queued job next
WorkerEmit ==
    /\ th.wpc = "emit"
    /\ signals' = signals + 1
    /\ runningJob' = queuedJob
    /\ queuedJob' = NoJob
    /\ fate' = [fate EXCEPT !.ran = @ \cup {runningJob.id}]
    /\ Thread([th EXCEPT !.wpc = "idle"])
    /\ UNCHANGED <<editor, occurrences, current_occurrence, cptOccurrences,
                   lineEditSearch, events, timerJob, history>>

Worker == WorkerLock \/ WorkerScan \/ WorkerUnlock \/ WorkerEmit

NextThreads ==
    \/ ThSetSearchText
    \/ ThClearOccurrences
    \/ ThTimerFire
    \/ ThFinishedBegin
    \/ ThFinishedGet
    \/ ThFinishedReset
    \/ ThFinishedCurrent
    \/ ThGetBegin
    \/ ThGetOccurrences
    \/ ThSelectBegin
    \/ ThSelectReadCurrent
    \/ ThSelectReadList
    \/ ThSelectStore
    \/ ThReplaceBegin
    \/ ThReplaceReadCurrent
    \/ ThReplaceReadList
    \/ ThReplaceText
    \/ ThReplaceRemove
    \/ ThReplaceSetCurrent
    \/ ThReplaceCount
    \/ WorkerLock
    \/ WorkerScan
    \/ WorkerUnlock
    \/ WorkerEmit

\* the worker thread runs whenever it can
SpecThreads == InitThreads /\ [][NextThreads]_vars /\ WF_vars(Worker)

\* ------------------------------------------------------------------------
\* Properties
\* ------------------------------------------------------------------------
\* the placements of q met by a left-to-right scan of doc that resumes at
\* the end of each placement
RECURSIVE placementsFrom(_, _, _)
placementsFrom(doc, q, from) ==
    LET idx == indexOf(doc, q, from, TRUE)
    IN IF idx = -1 THEN <<>>
       ELSE <<<<idx, idx + Len(q)>>>> \o placementsFrom(doc, q, idx + Len(q))

PassDone == last.op = "execSearch"

\* C1: a completed case-sensitive, not whole-word search pass stores exactly
\* the placements of a left-to-right non-overlapping scan, adjacent ones
\* included, in ascending order
C1_AllPlacementsStored ==
    (/\ PassDone
     /\ last.job.flags.caseSensitive
     /\ ~last.job.flags.wholeWords)
        => occurrences = placementsFrom(last.job.doc, last.job.text, 0)

Replaced == last.op = "replaceCurrent" /\ last.ret
Delta == Len(text) - Len(last.pre.text)

\* the list left by replacing entry i (0-based) with length delta d
afterReplace(list, i, d) ==
    [j \in 1..(Len(list) - 1) |->
        IF j <= i THEN list[j]
        ELSE <<list[j + 1][1] + d, list[j + 1][2] + d>>]

\* C2: replaceCurrent at index i in 0..N-1 removes entry i, shifts every
\* later entry by the length delta and leaves the earlier ones alone
C2_ReplaceShiftsLater ==
    (/\ Replaced
     /\ last.pre.cur >= 0
     /\ last.pre.cur < Len(last.pre.occ))
        => occurrences = afterReplace(last.pre.occ, last.pre.cur, Delta)

C2_Witness ==
    /\ Replaced
    /\ last.pre.cur = 0
    /\ Len(last.pre.occ) >= 2
    /\ Delta # 0

\* C3: -1 <= currentIndex < len(occurrences) in every reachable state
C3_CurrentIndexInRange ==
    /\ -1 <= current_occurrence
    /\ current_occurrence < Len(occurrences)

\* C4: the occurrence list is sorted strictly ascending by start and no
\* occurrence overlaps the next one, after every search pass, removal and
\* offset shift
C4_SortedNonOverlapping ==
    \A j \in 1..(Len(occurrences) - 1) :
        /\ occurrences[j][1] < occurrences[j + 1][1]
        /\ occurrences[j][2] <= occurrences[j + 1][1]

\* the document with the range of occurrence occ replaced by str
substituted(doc, occ, str) ==
    SubSeq(doc, 1, occ[1]) \o str \o SubSeq(doc, occ[2] + 1, Len(doc))

\* C5: replaceCurrent called with currentIndex = -1 on a non-empty list
\* replaces occurrence 0: its range is rewritten, it is the entry removed
\* and only the entries after it are shifted
C5_ReplacesFirstWhenNoneSelected ==
    (/\ last.op = "replaceCurrent"
     /\ last.pre.cur = -1
     /\ last.pre.occ # <<>>)
        => /\ last.ret
           /\ text = substituted(last.pre.text, last.pre.occ[1], last.text)
           /\ occurrences = afterReplace(last.pre.occ, 0, Delta)

\* C6: from currentIndex = -1 with N >= 1 occurrences, successive
\* selectNext calls succeed and select 0, 1, ..., N-1, then 0 again
C6_SelectNextCycles ==
    \A k \in 1..Len(trail) :
        /\ trail[k].ret
        /\ trail[k].cur = IF k <= Len(occurrences) THEN k - 1 ELSE 0

C6_Witness ==
    /\ occurrences # <<>>
    /\ Len(trail) = Len(occurrences) + 1

\* occurrence ranges lie in the document, ascending and apart
validRanges(doc, list) ==
    /\ \A j \in 1..Len(list) :
          0 <= list[j][1] /\ list[j][1] <= list[j][2] /\ list[j][2] <= Len(doc)
    /\ \A j \in 1..(Len(list) - 1) : list[j][2] <= list[j + 1][1]

\* the document with every range of list replaced by str
RECURSIVE substitutedAll(_, _, _)
substitutedAll(doc, list, str) ==
    IF list = <<>> THEN doc
    ELSE substitutedAll(substituted(doc, list[Len(list)], str),
                        SubSeq(list, 1, Len(list) - 1), str)

\* C7: replaceAll from any currentIndex in -1..N-1 substitutes every
\* occurrence range exactly once and leaves the list empty
C7_ReplaceAllSubstitutesAll ==
    (/\ last.op = "replaceAll"
     /\ validRanges(last.pre.text, last.pre.occ)
     /\ last.pre.cur >= -1
     /\ last.pre.cur < Len(last.pre.occ))
        => /\ text = substitutedAll(last.pre.text, last.pre.occ, last.text)
           /\ occurrences = <<>>

\* C8: replaceAll ends after at most N successful replaceCurrent calls and
\* one failing call
C8_ReplaceAllTerminates ==
    last.op = "replaceAll"
        => /\ ~last.ret
           /\ last.calls <= Len(last.pre.occ) + 1

C8_Witness ==
    /\ last.op = "replaceAll"
    /\ Len(last.pre.occ) >= 2
    /\ last.calls = Len(last.pre.occ) + 1
    /\ last.text # <<>>

\* C9: a textChanged subscription held before replaceCurrent / replaceAll
\* is held again when the call returns
C9_SubscriptionRestored ==
    (/\ last.op \in {"replaceCurrent", "replaceAll"}
     /\ last.pre.conn > 0)
        => connected > 0

\* C10: after requestSearch with an empty search text, and until the next
\* request with a non-empty one, the list is empty and currentIndex is -1
C10_EmptyQueryKeepsCleared ==
    cleared => (occurrences = <<>> /\ current_occurrence = -1)

\* C11: once requestSearch was called with a non-empty query, the results of
\* the earlier search are no longer in the occurrence list
C11_ResetOnRequest ==
    (last.op = "requestSearch" /\ last.text # <<>>) => occurrences = <<>>

\* the job of the requestSearch call just made, from the call's arguments
LastCall ==
    [none |-> FALSE, text |-> last.text, doc |-> text, cursor |-> tc,
     flags |-> [caseSensitive |-> checkBoxCase,
                wholeWords |-> checkBoxWholeWords],
     id |-> events, origin |-> tc]

Pending == ids({timerJob, runningJob, queuedJob})

wholeWordAt(doc, q, idx, caseSensitive) ==
    /\ matchesAt(doc, q, idx, caseSensitive)
    /\ idx = 0 \/ ~isLetterOrNumber(doc[idx])
    /\ idx + Len(q) = Len(doc) \/ ~isLetterOrNumber(doc[idx + Len(q) + 1])

\* the whole-word placements of q met by a left-to-right scan of doc
RECURSIVE wholeWordsFrom(_, _, _, _)
wholeWordsFrom(doc, q, from, caseSensitive) ==
    LET hits == {i \in from..(Len(doc) - Len(q)) :
                    wholeWordAt(doc, q, i, caseSensitive)}
    IN IF hits = {} THEN <<>>
       ELSE <<<<Min(hits), Min(hits) + Len(q)>>>>
                \o wholeWordsFrom(doc, q, Min(hits) + Len(q), caseSensitive)

\* C14: a completed whole-word pass stores exactly the placements of the
\* query whose two ends fall on word boundaries
C14_WholeWordsOnly ==
    (PassDone /\ last.job.flags.wholeWords)
        => occurrences = wholeWordsFrom(last.job.doc, last.job.text, 0,
                                        last.job.flags.caseSensitive)

Selected == last.op \in {"selectNext", "selectPrevious"}

\* C15: selectNext and selectPrevious fail on an empty list; on a non-empty
\* one they succeed and the editor selection is the (start, end) of the
\* occurrence at the new currentIndex
C15_SelectReturnsAndSelects ==
    Selected =>
        IF last.pre.occ = <<>>
        THEN ~last.ret
        ELSE /\ last.ret
             /\ current_occurrence \in 0..(Len(occurrences) - 1)
             /\ selectionStart(tc) = occurrences[current_occurrence + 1][1]
             /\ selectionEnd(tc) = occurrences[current_occurrence + 1][2]

\* replaceCurrent rewrote the range of entry j of the list it started with
\* and removed one entry
replacedOne(j) ==
    /\ 0 <= last.pre.occ[j][1]
    /\ last.pre.occ[j][1] <= last.pre.occ[j][2]
    /\ last.pre.occ[j][2] <= Len(last.pre.text)
    /\ text = substituted(last.pre.text, last.pre.occ[j], last.text)
    /\ Len(occurrences) = Len(last.pre.occ) - 1

\* C16: replaceCurrent returns True exactly when it replaced one occurrence,
\* and a call that returns False leaves the document and the list as they
\* were
C16_ReturnMirrorsReplacement ==
    last.op = "replaceCurrent" =>
        IF last.ret
        THEN \E j \in 1..Len(last.pre.occ) : replacedOne(j)
        ELSE text = last.pre.text /\ occurrences = last.pre.occ

\* C17: a search pass that fails in the worker does not leave the
\* occurrence lock held, so that the next pass can run and notify
C17_FailedPassReleasesLock == ~mutex

sameRequest(a, b) ==
    /\ a.text = b.text
    /\ a.flags = b.flags
    /\ a.doc = b.doc

\* C18: two passes for the same query, flags and document text store the
\* same occurrence list, whatever list, index and selection the first left
C18_SearchIdempotent ==
    \A i, j \in 1..Len(passes) :
        sameRequest(passes[i], passes[j]) => passes[i].occ = passes[j].occ

\* the same request was run twice; the second run started from another
\* selection and from the list the first had stored
C18_Witness ==
    \E i, j \in 1..Len(passes) :
        /\ i < j
        /\ sameRequest(passes[i], passes[j])
        /\ passes[i].cursor # passes[j].cursor
        /\ passes[i].occ # <<>>
        /\ passes[j].before # <<>>

\* C19: after a successful replaceCurrent at index i of N >= 2 occurrences
\* the current index is i, the entry that followed the replaced one, or 0
\* when the last entry was replaced, and the editor selects that entry
C19_MovesToFollowing ==
    (/\ Replaced
     /\ Len(last.pre.occ) >= 2
     /\ last.pre.cur \in 0..(Len(last.pre.occ) - 1))
        => /\ current_occurrence =
                  IF last.pre.cur = Len(last.pre.occ) - 1 THEN 0
                  ELSE last.pre.cur
           /\ selectionStart(tc) = occurrences[current_occurrence + 1][1]
           /\ selectionEnd(tc) = occurrences[current_occurrence + 1][2]

\* C20: selectPrevious stores len(occurrences) - 1 when the current index is
\* -1 or 0 and the index minus one otherwise; on a non-empty list with a
\* current index >= 0, selectNext then selectPrevious, and selectPrevious
\* then selectNext, give the current index back
C20_PreviousUndoesNext ==
    /\ last.op = "selectPrevious"
          => current_occurrence =
                 IF last.pre.cur \in {-1, 0} THEN Len(last.pre.occ) - 1
                 ELSE last.pre.cur - 1
    /\ (occurrences # <<>> /\ current_occurrence >= 0)
          => /\ selectPrevious(selectNext(Panel).p).p.cur = current_occurrence
             /\ selectNext(selectPrevious(Panel).p).p.cur = current_occurrence

\* selectPrevious has wrapped from index 0 to the last of several entries
C20_Witness ==
    /\ last.op = "selectPrevious"
    /\ last.pre.cur = 0
    /\ Len(last.pre.occ) >= 2
    /\ current_occurrence = Len(occurrences) - 1

\* the 0-based index of the entry of list equal to the range of cursor c,
\* -1 when there is none
indexOfRange(list, c) ==
    LET hits == {j \in 1..Len(list) :
                    list[j] = <<selectionStart(c), selectionEnd(c)>>}
    IN IF hits = {} THEN -1 ELSE Min(hits) - 1

\* C21: when a pass has finished, the current index is the index of the
\* stored occurrence equal to the selection captured with the request, and
\* -1 when there is none
C21_CurrentIsOrigin ==
    PassDone => current_occurrence = indexOfRange(occurrences, last.job.origin)

\* C22: after __onSearchFinished a non-empty list has its current index in
\* 0..len-1 with the editor selection on that occurrence, and an empty list
\* has current index -1
C22_FinishedSelectsCurrent ==
    last.op = "onSearchFinished" =>
        IF occurrences = <<>>
        THEN current_occurrence = -1
        ELSE /\ current_occurrence \in 0..(Len(occurrences) - 1)
             /\ selectionStart(tc) = occurrences[current_occurrence + 1][1]
             /\ selectionEnd(tc) = occurrences[current_occurrence + 1][2]

\* C25: the text replaceCurrent inserts triggers no search request: the
\* call submits no job and arms no debounce timer
C25_ReplaceRequestsNothing ==
    last.op = "replaceCurrent" =>
        events \notin ids({timerJob, queuedJob, runningJob})
C25_Witness ==
    /\ last.op = "replaceCurrent"
    /\ last.ret
    /\ text # last.pre.text
    /\ lineEditSearch # <<>>
    /\ last.pre.conn = 1

\* no search is pending (timer or queue), running or waiting to be handled
Quiescent ==
    /\ timerJob = NoJob
    /\ queuedJob = NoJob
    /\ runningJob = NoJob
    /\ signals = 0

\* the range lies in the live document and the text in it matches the
\* search text under the flags of the check boxes
liveMatch(occ) ==
    /\ occ[2] - occ[1] = Len(lineEditSearch)
    /\ IF checkBoxWholeWords
       THEN wholeWordAt(text, lineEditSearch, occ[1], checkBoxCase)
       ELSE matchesAt(text, lineEditSearch, occ[1], checkBoxCase)

\* C29: in a quiescent state every stored occurrence lies within the live
\* document and the live text in its range matches the query under the
\* current flags
C29_QuiescentListMatches ==
    Quiescent => \A j \in 1..Len(occurrences) : liveMatch(occurrences[j])

\* C23: whatever a reader gets while a pass runs is a complete list, never
\* one the pass is still filling, and the current index a reader combines
\* with a list was read from the same list: no pass completed in between
C23_ReaderSeesOneList ==
    /\ ~th.mid
    /\ th.pc = "sn_set" => th.crGen = th.occGen

\* C24: no field of the occurrence index is read or written by a thread
\* that does not hold __mutex
C24_AccessUnderLock == ~th.bare

\* C26: every pass the worker has started ends: it releases the lock and
\* emits searchFinished, whatever cancelRequests() and stopJob() do
C26_PassTerminates ==
    \A i \in 1..MaxThreadEvents :
        (runningJob # NoJob /\ runningJob.id = i) ~> (i \in fate.ran)

\* C27: the UI thread is never at a lock() of one of its operations while
\* the worker holds the mutex for its scan
C27_UINeverWaits == ~(th.pc \in LockPcs /\ th.owner = "worker")

\* C28: the UI thread never returns from an operation with __mutex held
C28_ReturnsUnlocked == th.pc = "idle" => th.owner # "ui"

====
